---- MODULE Spec2Model ----
(***************************************************************************)
(* Model of mindscope_utilities.general_utilities.event_triggered_response *)
(* (src/mindscope_utilities/general_utilities.py).                         *)
(*                                                                         *)
(* One call of the function is one behaviour: Init draws the arguments,    *)
(* BuildGrid is line 87, ProcessEvent is one iteration of the loop of      *)
(* lines 88-94, Assemble is line 96 and the three return actions are       *)
(* lines 97-103.                                                           *)
(*                                                                         *)
(* Numbers.  All times (x, event_times, t_before, t_after, step_size) are  *)
(* integers counting half units, so 0.5 is 1 and 2.0 is 4.  Computed       *)
(* values (grid points, interpolated responses) are exact rationals        *)
(* <<numerator, denominator>> in lowest terms with a positive denominator; *)
(* binary floating point rounding is not modelled.                         *)
(*                                                                         *)
(* Text.  A Python str is a sequence of one-character strings.             *)
(***************************************************************************)
EXTENDS Integers, Sequences, FiniteSets

VARIABLES data, event_times, float_times, t_before, t_after, step_size,
          endpoint, output_format, pc, ii, d, x_slice, y_slice, wide_etr,
          result

\* data           the rows of the input frame, [x, y], in the frame's order
\* event_times    the list of event times
\* float_times    np.array(event_times) is an array of floats (else of integers)
\* t_before, t_after, step_size, endpoint, output_format    the other arguments
\* pc             "line87", "line88" (the loop and what follows it), "returned",
\*                "raised"
\* ii             the number of completed iterations of the loop of line 88
\* d              _d: the dict as a sequence of [key, val] in insertion order
\* x_slice, y_slice   the locals of lines 91 and 92, as the latest iteration left them
\* wide_etr       the frame of line 96
\* result         what the call returned, or the error it raised and where
vars == <<data, event_times, float_times, t_before, t_after, step_size,
          endpoint, output_format, pc, ii, d, x_slice, y_slice, wide_etr,
          result>>

args == <<data, event_times, float_times, t_before, t_after, step_size,
          endpoint, output_format>>

-----------------------------------------------------------------------------
(* Bounds of the model *)

\* longest event_times list
MaxEvents == 2

\* largest step_size (half units)
MaxStep == 2

\* x positions of the regularly sampled signal (half units: 0.0, 1.0, ..., 5.0)
XTicks == {0, 2, 4, 6, 8, 10}

\* the samples that may be missing from it: none, or any one of them
Dropouts == {m \in SUBSET XTicks : Cardinality(m) <= 1}

\* event times (half units: -0.5, 2.0, 4.0)
EventTicks == {-1, 4, 8}

\* t_before and t_after (half units)
BeforeTicks == {0, 2, 4}
AfterTicks == {-1, 0, 2, 3}

\* the signals sampled at the x positions: y = 10 * x, and y = x * x
Signals == {"linear", "square"}

Formats == {"wide", "tidy", "long"}

-----------------------------------------------------------------------------
(* Exact rational arithmetic *)

Abs(n) == IF n < 0 THEN -n ELSE n

RECURSIVE GCD(_, _)
GCD(a, b) == IF b = 0 THEN a ELSE GCD(b, a % b)

Rat(n, dn) ==
    LET s == IF dn < 0 THEN -1 ELSE 1
        g == GCD(Abs(n), Abs(dn))
    IN  <<(s * n) \div g, (s * dn) \div g>>

RInt(n) == <<n, 1>>
RAdd(a, b) == Rat(a[1] * b[2] + b[1] * a[2], a[2] * b[2])
RSub(a, b) == Rat(a[1] * b[2] - b[1] * a[2], a[2] * b[2])
RMul(a, b) == Rat(a[1] * b[1], a[2] * b[2])
RDiv(a, b) == Rat(a[1] * b[2], a[2] * b[1])
RLt(a, b) == a[1] * b[2] < b[1] * a[2]

-----------------------------------------------------------------------------
(* Line 87: the relative-time grid *)

\* Python's int() of the real number n / dn, dn > 0: truncation toward zero
IntTrunc(n, dn) == IF n >= 0 THEN n \div dn ELSE -((-n) \div dn)

\* variant: int() applied before the endpoint term is added
GridCountAddAfter(tb, ta, step, ep) ==
    IntTrunc(tb + ta, step) + (IF ep THEN 1 ELSE 0)

\* int((t_before + t_after) / step_size + int(endpoint))
GridCount(tb, ta, step, ep) ==
    IntTrunc((tb + ta) + (IF ep THEN step ELSE 0), step)

\* np.linspace(start, stop, num, endpoint=ep) for num >= 0
Linspace(start, stop, num, ep) ==
    LET div == IF ep THEN num - 1 ELSE num
    IN  [k \in 1..num |->
            IF div > 0
            THEN RAdd(RInt(start), RMul(RInt(k - 1), Rat(stop - start, div)))
            ELSE RInt(start)]

-----------------------------------------------------------------------------
(* Lines 90-92: the window of one event *)

\* variant: a closed window, >= and <=
InWindowClosed(xv, event_time, tb, ta) ==
    xv >= (event_time - tb) /\ xv <= (event_time + ta)

\* data.query("x > (@event_time - @t_before) and x < (@event_time + @t_after)")
InWindow(xv, event_time, tb, ta) ==
    xv > (event_time - tb) /\ xv < (event_time + ta)

DataSlice(dat, event_time, tb, ta) ==
    SelectSeq(dat, LAMBDA s : InWindow(s.x, event_time, tb, ta))

\* data_slice[x] - event_time
XSlice(data_slice, event_time) ==
    [k \in 1..Len(data_slice) |-> data_slice[k].x - event_time]

\* data_slice[y]
YSlice(data_slice) == [k \in 1..Len(data_slice) |-> data_slice[k].y]

-----------------------------------------------------------------------------
(* Line 94: np.interp(grid, x_slice, y_slice), for a non-empty increasing  *)
(* x_slice.  Positions are 1-based: 0 stands for numpy's -1 (key below the  *)
(* table) and Len + 1 for numpy's len (key above the table).                *)

BinarySearch(key, arr) ==
    IF RLt(RInt(arr[Len(arr)]), key) THEN Len(arr) + 1
    ELSE IF RLt(key, RInt(arr[1])) THEN 0
    ELSE CHOOSE j \in 1..Len(arr) :
            /\ ~RLt(key, RInt(arr[j]))
            /\ (j = Len(arr) \/ RLt(key, RInt(arr[j + 1])))

\* variant: below the table the first segment is extended instead of clamped
InterpOneExtrapolate(g, xp, fp) ==
    LET j == BinarySearch(g, xp)
    IN  IF j = 0 /\ Len(xp) >= 2
            THEN RAdd(RMul(Rat(fp[2] - fp[1], xp[2] - xp[1]), RSub(g, RInt(xp[1]))),
                      RInt(fp[1]))
        ELSE IF j = 0 THEN RInt(fp[1])
        ELSE IF j = Len(xp) + 1 THEN RInt(fp[Len(xp)])
        ELSE IF j = Len(xp) THEN RInt(fp[j])
        ELSE IF RInt(xp[j]) = g THEN RInt(fp[j])
        ELSE LET slope == Rat(fp[j + 1] - fp[j], xp[j + 1] - xp[j])
             IN  RAdd(RMul(slope, RSub(g, RInt(xp[j]))), RInt(fp[j]))

InterpOne(g, xp, fp) ==
    LET j == BinarySearch(g, xp)
    IN  IF j = 0 THEN RInt(fp[1])
        ELSE IF j = Len(xp) + 1 THEN RInt(fp[Len(xp)])
        ELSE IF j = Len(xp) THEN RInt(fp[j])
        ELSE IF RInt(xp[j]) = g THEN RInt(fp[j])
        ELSE LET slope == Rat(fp[j + 1] - fp[j], xp[j + 1] - xp[j])
             IN  RAdd(RMul(slope, RSub(g, RInt(xp[j]))), RInt(fp[j]))

Interp(grid, xp, fp) == [k \in 1..Len(grid) |-> InterpOne(grid[k], xp, fp)]

-----------------------------------------------------------------------------
(* Line 94: the column label 'event_{}_t={}'.format(ii, event_time) *)

Digit(n) == <<"0", "1", "2", "3", "4", "5", "6", "7", "8", "9">>[n + 1]

RECURSIVE NatStr(_)
NatStr(n) == IF n < 10 THEN <<Digit(n)>> ELSE NatStr(n \div 10) \o <<Digit(n % 10)>>

\* str() of a Python or numpy integer
IntStr(n) == IF n < 0 THEN <<"-">> \o NatStr(-n) ELSE NatStr(n)

\* str() of the numpy float whose value is t half units: 4 is '2.0', -1 is '-0.5'
FloatStr(t) ==
    (IF t < 0 THEN <<"-">> ELSE <<>>)
        \o NatStr(Abs(t) \div 2) \o <<".">>
        \o (IF Abs(t) % 2 = 0 THEN <<"0">> ELSE <<"5">>)

\* str() of an element of np.array(event_times): the array is of integers
\* unless the list holds a float
TimeStr(t, is_float) == IF is_float THEN FloatStr(t) ELSE IntStr(t \div 2)

EventPrefix == <<"e", "v", "e", "n", "t", "_">>
TimePrefix == <<"t", "=">>
TimeKey == <<"t", "i", "m", "e">>

\* variant: the label leaves the loop index out
LabelNoIndex(n, event_time, is_float) ==
    EventPrefix \o <<"0">> \o <<"_">> \o TimePrefix \o TimeStr(event_time, is_float)

Label(n, event_time, is_float) ==
    EventPrefix \o IntStr(n) \o <<"_">> \o TimePrefix \o TimeStr(event_time, is_float)

\* variant: a new key is put right after the first one
DictUpdateFront(dict, key, val) ==
    IF \E k \in 1..Len(dict) : dict[k].key = key
    THEN [k \in 1..Len(dict) |->
            IF dict[k].key = key THEN [key |-> key, val |-> val] ELSE dict[k]]
    ELSE <<Head(dict), [key |-> key, val |-> val]>> \o Tail(dict)

\* _d.update({key: val}) on a dict kept in insertion order
DictUpdate(dict, key, val) ==
    IF \E k \in 1..Len(dict) : dict[k].key = key
    THEN [k \in 1..Len(dict) |->
            IF dict[k].key = key THEN [key |-> key, val |-> val] ELSE dict[k]]
    ELSE Append(dict, [key |-> key, val |-> val])

-----------------------------------------------------------------------------
(* Lines 100-103: the tidy table *)

StartsWith(s, sep) == Len(s) >= Len(sep) /\ SubSeq(s, 1, Len(sep)) = sep

\* str.split(sep): the pieces of s between the occurrences of sep, left to right
RECURSIVE SplitFrom(_, _, _)
SplitFrom(s, sep, piece) ==
    IF s = <<>> THEN <<piece>>
    ELSE IF StartsWith(s, sep)
         THEN <<piece>> \o SplitFrom(SubSeq(s, Len(sep) + 1, Len(s)), sep, <<>>)
         ELSE SplitFrom(Tail(s), sep, Append(piece, Head(s)))

Split(s, sep) == SplitFrom(s, sep, <<>>)

\* lambda s: s.split('event_')[1].split('_')[0]
EventNumber(s) == Split(Split(s, EventPrefix)[2], <<"_">>)[1]

\* variant: s.split('_')[2]
EventTimeAfterUnderscore(s) == Split(s, <<"_">>)[3]

\* lambda s: s.split('t=')[1]
EventTime(s) == Split(s, TimePrefix)[2]

\* variant: each column is read from its last row to its first
RECURSIVE MeltBackwards(_, _)
MeltBackwards(time, cols) ==
    IF cols = <<>> THEN <<>>
    ELSE [r \in 1..Len(time) |->
            [time |-> time[r], variable |-> cols[1].key,
             value |-> cols[1].val[Len(time) + 1 - r]]]
         \o MeltBackwards(time, Tail(cols))

\* wide_etr.melt(id_vars='time'): the value columns one after the other, each
\* with the rows in the frame's order
RECURSIVE Melt(_, _)
Melt(time, cols) ==
    IF cols = <<>> THEN <<>>
    ELSE [r \in 1..Len(time) |->
            [time |-> time[r], variable |-> cols[1].key, value |-> cols[1].val[r]]]
         \o Melt(time, Tail(cols))

\* the frame built at line 96 from the dict: its first column is 'time'
FrameTime(frame) == frame[1].val
FrameCols(frame) == Tail(frame)

TidyEtr(frame) ==
    LET melted == Melt(FrameTime(frame), FrameCols(frame))
    IN  [r \in 1..Len(melted) |->
            [time |-> melted[r].time,
             y |-> melted[r].value,
             event_number |-> EventNumber(melted[r].variable),
             event_time |-> EventTime(melted[r].variable)]]

\* wide_etr.set_index('time')
WideEtr(frame) == [index |-> FrameTime(frame), columns |-> FrameCols(frame)]

-----------------------------------------------------------------------------
(* The arguments of a call *)

RECURSIVE SortedSeq(_)
SortedSeq(S) ==
    IF S = {} THEN <<>>
    ELSE LET m == CHOOSE v \in S : \A w \in S : v <= w
         IN  <<m>> \o SortedSeq(S \ {m})

\* the sampled signal at x half units: 10 per unit, or the square of the units
Signal(sig, xv) == IF sig = "linear" THEN 5 * xv ELSE (xv * xv) \div 4

\* the input frame: one row per sample, x increasing
Samples(S, sig) ==
    LET xs == SortedSeq(S)
    IN  [k \in 1..Len(xs) |-> [x |-> xs[k], y |-> Signal(sig, xs[k])]]

DataFrames == {Samples(XTicks \ M, sig) : M \in Dropouts, sig \in Signals}

EventLists == UNION {[1..n -> EventTicks] : n \in 1..MaxEvents}

Init ==
    /\ data \in DataFrames
    /\ event_times \in EventLists
    /\ float_times \in BOOLEAN
    /\ (\E k \in 1..Len(event_times) : event_times[k] % 2 # 0) => float_times
    /\ t_before \in BeforeTicks
    /\ t_after \in AfterTicks
    /\ step_size \in 1..MaxStep
    /\ endpoint \in BOOLEAN
    /\ output_format \in Formats
    /\ pc = "line87"
    /\ ii = 0
    /\ d = <<>>
    /\ x_slice = <<>>
    /\ y_slice = <<>>
    /\ wide_etr = <<>>
    /\ result = [kind |-> "running"]

-----------------------------------------------------------------------------
(* The steps of a call *)

\* _d['time']
DictGet(dict, key) == dict[CHOOSE k \in 1..Len(dict) : dict[k].key = key].val

\* line 87; np.linspace raises ValueError for a negative number of samples
BuildGrid ==
    /\ pc = "line87"
    /\ LET num == GridCount(t_before, t_after, step_size, endpoint)
       IN  IF num < 0
           THEN /\ pc' = "raised"
                /\ result' = [kind |-> "ValueError", line |-> 87]
                /\ d' = d
           ELSE /\ pc' = "line88"
                /\ d' = <<[key |-> TimeKey,
                           val |-> Linspace(-t_before, t_after, num, endpoint)]>>
                /\ result' = result
    /\ UNCHANGED <<args, ii, x_slice, y_slice, wide_etr>>

\* lines 88-94, one iteration; np.interp raises ValueError for an empty table
ProcessEvent ==
    /\ pc = "line88"
    /\ ii < Len(event_times)
    /\ LET event_time == event_times[ii + 1]
           data_slice == DataSlice(data, event_time, t_before, t_after)
       IN  /\ x_slice' = XSlice(data_slice, event_time)
           /\ y_slice' = YSlice(data_slice)
           /\ IF Len(data_slice) = 0
              THEN /\ pc' = "raised"
                   /\ result' = [kind |-> "ValueError", line |-> 94]
                   /\ UNCHANGED <<d, ii>>
              ELSE /\ d' = DictUpdate(d, Label(ii, event_time, float_times),
                                      Interp(DictGet(d, TimeKey), x_slice', y_slice'))
                   /\ ii' = ii + 1
                   /\ UNCHANGED <<pc, result>>
    /\ UNCHANGED <<args, wide_etr>>

\* lines 96-98
ReturnWide ==
    /\ pc = "line88"
    /\ ii = Len(event_times)
    /\ output_format = "wide"
    /\ wide_etr' = d
    /\ result' = [kind |-> "wide", frame |-> WideEtr(d)]
    /\ pc' = "returned"
    /\ UNCHANGED <<args, ii, d, x_slice, y_slice>>

\* lines 96, 99-103
ReturnTidy ==
    /\ pc = "line88"
    /\ ii = Len(event_times)
    /\ output_format = "tidy"
    /\ wide_etr' = d
    /\ result' = [kind |-> "tidy", rows |-> TidyEtr(d)]
    /\ pc' = "returned"
    /\ UNCHANGED <<args, ii, d, x_slice, y_slice>>

\* variant: an unrecognized format raises
FallThroughRaises ==
    /\ pc = "line88"
    /\ ii = Len(event_times)
    /\ output_format \notin {"wide", "tidy"}
    /\ wide_etr' = d
    /\ result' = [kind |-> "ValueError", line |-> 99]
    /\ pc' = "raised"
    /\ UNCHANGED <<args, ii, d, x_slice, y_slice>>

\* lines 96-99 with neither branch taken: the function ends and returns None
FallThrough ==
    /\ pc = "line88"
    /\ ii = Len(event_times)
    /\ output_format \notin {"wide", "tidy"}
    /\ wide_etr' = d
    /\ result' = [kind |-> "None"]
    /\ pc' = "returned"
    /\ UNCHANGED <<args, ii, d, x_slice, y_slice>>

Next == BuildGrid \/ ProcessEvent \/ ReturnWide \/ ReturnTidy \/ FallThrough

Spec == Init /\ [][Next]_vars

-----------------------------------------------------------------------------
(* Vocabulary of the properties *)

\* the relative-time grid held by the dict once line 87 has run
Grid == DictGet(d, TimeKey)

RaisedAt(line) == pc = "raised" /\ result.line = line

Returned(kind) == pc = "returned" /\ result.kind = kind

\* the window of the k-th supplied event holds no sample
EmptyWindow(k) ==
    \A s \in 1..Len(data) :
        ~(event_times[k] - t_before < data[s].x /\ data[s].x < event_times[k] + t_after)

\* a missing value
NaN == <<0, 0>>

\* the value of the response of a tidy table for one event label and grid time
TidyValues(rows, number, time) ==
    {rows[q].y : q \in {p \in 1..Len(rows) :
                            rows[p].event_number = number /\ rows[p].time = time}}

\* wide and tidy hold the same value for every event and every grid point
SameCells(wide, rows) ==
    \A i \in 1..Len(wide.columns) : \A r \in 1..Len(wide.index) :
        /\ TidyValues(rows, IntStr(i - 1), wide.index[r]) = {wide.columns[i].val[r]}
        /\ Cardinality({p \in 1..Len(rows) :
                            /\ rows[p].event_number = IntStr(i - 1)
                            /\ rows[p].time = wide.index[r]}) = 1

-----------------------------------------------------------------------------
(* C1.  The end-to-end example: x = 0..5, y = 10 x, events at 2 and 4,      *)
(* t_before = t_after = 1, step_size = 1, endpoint, wide.  The claim: the   *)
(* grid is [-1, 0, 1], the column of event 0 is [10, 20, 30] and the column *)
(* of event 1 is [30, 40, 50].                                              *)

ExampleData ==
    <<[x |-> 0, y |-> 0], [x |-> 2, y |-> 10], [x |-> 4, y |-> 20],
      [x |-> 6, y |-> 30], [x |-> 8, y |-> 40], [x |-> 10, y |-> 50]>>

ExampleCall ==
    /\ data = ExampleData
    /\ event_times = <<4, 8>>
    /\ t_before = 2 /\ t_after = 2 /\ step_size = 2
    /\ endpoint
    /\ output_format = "wide"

\* C1: the example call returns the grid [-1, 0, 1] with the columns
\* [10, 20, 30] and [30, 40, 50]
C1_EndToEndExample ==
    (ExampleCall /\ pc = "returned") =>
        /\ result.kind = "wide"
        /\ result.frame.index = <<RInt(-2), RInt(0), RInt(2)>>
        /\ result.frame.columns[1].val = <<RInt(10), RInt(20), RInt(30)>>
        /\ result.frame.columns[2].val = <<RInt(30), RInt(40), RInt(50)>>

-----------------------------------------------------------------------------
(* C2.  An event whose window holds no sample does not make the call raise: *)
(* the call goes on and the column of that event is missing at every grid   *)
(* point.                                                                   *)

\* C2: line 94 never raises, and the column of an event with an empty window
\* is NaN at every grid point
C2_EmptyWindowIsMissing ==
    /\ ~RaisedAt(94)
    /\ \A k \in 1..ii :
          EmptyWindow(k) => \A r \in 1..Len(Grid) : d[k + 1].val[r] = NaN

-----------------------------------------------------------------------------
(* C3.  The interpolation table of an event is made of exactly the samples  *)
(* strictly inside (event_time - t_before, event_time + t_after), each with *)
(* its x shifted by the event time.                                         *)

\* the loop body has run at least once: x_slice and y_slice are bound
LoopEntered == ii >= 1 \/ RaisedAt(94)

\* the event of the latest iteration
LoopEvent == IF pc = "raised" THEN event_times[ii + 1] ELSE event_times[ii]

\* C3: x_slice and y_slice hold exactly the samples strictly inside the window,
\* in the frame's order, shifted by the event time; no boundary sample is used
C3_StrictOpenWindow ==
    LoopEntered =>
        LET e == LoopEvent
            inside == {k \in 1..Len(data) :
                          e - t_before < data[k].x /\ data[k].x < e + t_after}
        IN  /\ Len(x_slice) = Cardinality(inside)
            /\ Len(y_slice) = Len(x_slice)
            /\ \A k \in inside : \E p \in 1..Len(x_slice) :
                  x_slice[p] = data[k].x - e /\ y_slice[p] = data[k].y
            /\ \A p \in 1..Len(x_slice) :
                  x_slice[p] # -t_before /\ x_slice[p] # t_after
            /\ \A p \in 1..(Len(x_slice) - 1) : x_slice[p] < x_slice[p + 1]

\* an iteration whose window has a sample on each boundary and one inside
C3_Witness ==
    /\ LoopEntered
    /\ Len(x_slice) >= 1
    /\ \E k \in 1..Len(data) : data[k].x = LoopEvent - t_before
    /\ \E k \in 1..Len(data) : data[k].x = LoopEvent + t_after

-----------------------------------------------------------------------------
(* C4.  The wide table and the tidy table of the same call hold the same    *)
(* value for every event and every grid point.                              *)

\* C4: the returned table agrees, cell by cell, with the table of the other
\* format built from the same frame
C4_WideTidyEquivalence ==
    /\ Returned("tidy") =>
          /\ Len(WideEtr(wide_etr).columns) = Len(event_times)
          /\ SameCells(WideEtr(wide_etr), result.rows)
    /\ Returned("wide") =>
          /\ Len(result.frame.columns) = Len(event_times)
          /\ SameCells(result.frame, TidyEtr(wide_etr))

\* a tidy table of two events over a grid of at least two points, the two
\* columns differing
C4_Witness ==
    /\ Returned("tidy")
    /\ Len(event_times) = 2
    /\ Len(Grid) >= 2
    /\ wide_etr[2].val # wide_etr[3].val
    /\ wide_etr[2].val[1] # wide_etr[2].val[2]

-----------------------------------------------------------------------------
(* C5.  The tidy table has grid length x number of events rows.             *)

\* C5: the number of rows of the tidy table
C5_TidyRowCount ==
    Returned("tidy") => Len(result.rows) = Len(Grid) * Len(event_times)

\* a tidy table for a list that repeats an event time
C5_Witness ==
    /\ Returned("tidy")
    /\ Len(event_times) = 2
    /\ event_times[1] = event_times[2]
    /\ Len(Grid) >= 2

-----------------------------------------------------------------------------
(* C6.  Tidy rows come in blocks, one per event in the order the events     *)
(* were supplied, each block in increasing relative time; the columns of    *)
(* the wide table follow the same order.                                    *)

\* the column the call computes for the k-th supplied event
ColumnOf(k) ==
    LET data_slice == DataSlice(data, event_times[k], t_before, t_after)
    IN  Interp(Grid, XSlice(data_slice, event_times[k]), YSlice(data_slice))

Increasing(times) == \A r \in 1..(Len(times) - 1) : RLt(times[r], times[r + 1])

\* C6: row q of the tidy table belongs to event (q - 1) div N and grid point
\* (q - 1) mod N, the grid increases, and column i of the wide table is the
\* response to the i-th supplied event
C6_InputOrder ==
    /\ Returned("tidy") =>
          /\ Increasing(Grid)
          /\ \A q \in 1..Len(result.rows) :
                LET blk == (q - 1) \div Len(Grid)
                    r == ((q - 1) % Len(Grid)) + 1
                IN  /\ blk < Len(event_times)
                    /\ result.rows[q].event_number = IntStr(blk)
                    /\ result.rows[q].time = Grid[r]
                    /\ result.rows[q].y = ColumnOf(blk + 1)[r]
    /\ Returned("wide") =>
          /\ Increasing(result.frame.index)
          /\ Len(result.frame.columns) = Len(event_times)
          /\ \A i \in 1..Len(event_times) :
                /\ result.frame.columns[i].val = ColumnOf(i)
                /\ EventNumber(result.frame.columns[i].key) = IntStr(i - 1)

\* a tidy table for two events supplied in decreasing order of time, with
\* different responses
C6_Witness ==
    /\ Returned("tidy")
    /\ Len(event_times) = 2
    /\ event_times[1] > event_times[2]
    /\ Len(Grid) >= 2
    /\ ColumnOf(1) # ColumnOf(2)

-----------------------------------------------------------------------------
(* C7.  The number of points of the grid.  The claim: for all t_before,     *)
(* t_after, step_size > 0 and endpoint it is                                *)
(* int((t_before + t_after) / step_size) + (1 if endpoint else 0).          *)

EndpointTerm == IF endpoint THEN 1 ELSE 0

\* C7 as claimed: line 87 builds a grid of
\* int((t_before + t_after) / step_size) + (1 if endpoint else 0) points
C7_ClaimedGridLength ==
    pc # "line87" =>
        /\ ~RaisedAt(87)
        /\ Len(Grid) = IntTrunc(t_before + t_after, step_size) + EndpointTerm

\* C7 as amended: the number of points is the truncation toward zero of
\* (t_before + t_after) / step_size + (1 if endpoint else 0); line 87 raises
\* when that is negative; for t_before + t_after >= 0 it is the claimed number.
\* With span = t_before + t_after + (step_size if endpoint else 0):
\* N * step_size <= span < (N + 1) * step_size when span >= 0, N = 0 when
\* -step_size < span < 0, and a raise when span <= -step_size.
C7_GridLength ==
    pc # "line87" =>
        LET span == t_before + t_after + EndpointTerm * step_size
        IN  /\ RaisedAt(87) <=> span <= -step_size
            /\ ~RaisedAt(87) =>
                  /\ span >= 0 =>
                        /\ Len(Grid) * step_size <= span
                        /\ span < (Len(Grid) + 1) * step_size
                  /\ span < 0 => Len(Grid) = 0
                  /\ t_before + t_after >= 0 =>
                        Len(Grid) = ((t_before + t_after) \div step_size) + EndpointTerm
            /\ (t_before = 2 /\ t_after = 2 /\ step_size = 1) =>
                  /\ ~RaisedAt(87)
                  /\ Len(Grid) = IF endpoint THEN 5 ELSE 4

\* a grid built for -1 < (t_before + t_after) / step_size < 0 with endpoint:
\* it is empty
C7_Witness ==
    /\ pc = "line88"
    /\ endpoint
    /\ t_before + t_after < 0
    /\ t_before + t_after > -step_size
    /\ Len(Grid) = 0

-----------------------------------------------------------------------------
(* C8.  Every tidy row of the i-th supplied event carries the text of i as  *)
(* event_number and the text of event_times[i] as event_time: splitting the *)
(* label inverts the naming.                                                *)

\* the number a text of decimal digits denotes
RECURSIVE NatOf(_)
NatOf(s) ==
    IF s = <<>> THEN 0
    ELSE 10 * NatOf(SubSeq(s, 1, Len(s) - 1))
            + (CHOOSE n \in 0..9 : Digit(n) = s[Len(s)])

\* C8: in the tidy table the rows (i - 1) * N + 1 .. i * N carry the decimal
\* text of i - 1 (0-based index) and the default text of event_times[i]
C8_LabelRoundTrip ==
    Returned("tidy") =>
        \A i \in 1..Len(event_times) : \A r \in 1..Len(Grid) :
            LET row == result.rows[(i - 1) * Len(Grid) + r]
            IN  /\ NatOf(row.event_number) = i - 1
                /\ Len(row.event_number) = Len(IntStr(i - 1))
                /\ row.event_time = TimeStr(event_times[i], float_times)

\* a tidy table for a negative fractional event time given twice
C8_Witness ==
    /\ Returned("tidy")
    /\ event_times = <<-1, -1>>
    /\ Len(Grid) >= 1
    /\ result.rows[Len(result.rows)].event_time = <<"-", "0", ".", "5">>

-----------------------------------------------------------------------------
(* C9.  An output_format other than 'wide' and 'tidy' raises nothing and    *)
(* returns no table.                                                        *)

\* the arguments for which the call with a known format returns a table
ValidInputs ==
    /\ GridCount(t_before, t_after, step_size, endpoint) >= 0
    /\ \A k \in 1..Len(event_times) : ~EmptyWindow(k)

\* C9: with an unrecognized format and valid other inputs the call does not
\* raise, and what it returns is None
C9_UnknownFormatFallsThrough ==
    output_format \notin {"wide", "tidy"} =>
        /\ ValidInputs => pc # "raised"
        /\ pc = "returned" => result = [kind |-> "None"]
        /\ (ValidInputs /\ pc = "line88" /\ ii = Len(event_times)) => ENABLED FallThrough

\* a call with an unrecognized format that has returned
C9_Witness ==
    /\ pc = "returned"
    /\ output_format = "long"
    /\ ValidInputs
    /\ Len(wide_etr) = 3

-----------------------------------------------------------------------------
(* C10.  Outside the table the interpolation is clamped to the y of the     *)
(* first or of the last selected sample, inside it is linear between the    *)
(* two neighbouring samples.                                                *)

\* v is the value at g of the line through (x1, y1) and (x2, y2)
OnLine(g, v, x1, y1, x2, y2) ==
    RMul(RSub(v, RInt(y1)), RInt(x2 - x1)) = RMul(RSub(g, RInt(x1)), RInt(y2 - y1))

\* C10: for the event of the latest iteration, the column at grid point g is
\* y_slice[1] below the table, y_slice[last] above it, and on the segment of
\* the two neighbouring samples otherwise; it never leaves the range of
\* y_slice, and a table of one sample gives a constant column; line 94 raises
\* only for an empty table
C10_ClampedLinearInterpolation ==
    /\ RaisedAt(94) => Len(x_slice) = 0
    /\ (ii >= 1 /\ pc # "raised") =>
        LET n == Len(x_slice)
            col == d[ii + 1].val
        IN  /\ n >= 1
            /\ Len(col) = Len(Grid)
            /\ \A r \in 1..Len(Grid) :
                  LET g == Grid[r]
                      v == col[r]
                  IN  /\ RLt(g, RInt(x_slice[1])) => v = RInt(y_slice[1])
                      /\ RLt(RInt(x_slice[n]), g) => v = RInt(y_slice[n])
                      /\ (~RLt(g, RInt(x_slice[1])) /\ ~RLt(RInt(x_slice[n]), g)) =>
                            \E j \in 1..n :
                                \/ g = RInt(x_slice[j]) /\ v = RInt(y_slice[j])
                                \/ /\ j < n
                                   /\ RLt(RInt(x_slice[j]), g)
                                   /\ RLt(g, RInt(x_slice[j + 1]))
                                   /\ OnLine(g, v, x_slice[j], y_slice[j],
                                             x_slice[j + 1], y_slice[j + 1])
                      /\ \E lo, hi \in 1..n :
                            /\ ~RLt(v, RInt(y_slice[lo]))
                            /\ ~RLt(RInt(y_slice[hi]), v)
                      /\ n = 1 => v = RInt(y_slice[1])

\* a column with a grid point below the table, one above it and one strictly
\* between two samples, on a signal that is not a line
C10_Witness ==
    /\ ii >= 1 /\ pc # "raised"
    /\ Len(x_slice) >= 3
    /\ \E r \in 1..Len(Grid) : RLt(Grid[r], RInt(x_slice[1]))
    /\ \E r \in 1..Len(Grid) : RLt(RInt(x_slice[Len(x_slice)]), Grid[r])
    /\ \E r \in 1..Len(Grid) : \E j \in 1..(Len(x_slice) - 1) :
          /\ RLt(RInt(x_slice[j]), Grid[r]) /\ RLt(Grid[r], RInt(x_slice[j + 1]))
          /\ d[ii + 1].val[r][2] # 1
    /\ ~OnLine(RInt(x_slice[3]), RInt(y_slice[3]),
               x_slice[1], y_slice[1], x_slice[2], y_slice[2])

====
